---- MODULE Spec2Model ----
(***************************************************************************)
(* A model of expense_tracker.py: the in-memory list of Expense objects,   *)
(* the JSON storage file, the menu handlers that mutate both, and the      *)
(* summaries computed over the list.                                       *)
(*                                                                         *)
(* Python strings are sequences of one-character strings, so that parsing  *)
(* (strptime, float, int), formatting (f-strings, strftime), lower() and   *)
(* string comparison are computed character by character.                  *)
(* Amounts are Python floats with integral values, on which float          *)
(* addition is exact; they are written as integers.                        *)
(***************************************************************************)
EXTENDS Integers, Sequences, FiniteSets, TLC

VARIABLES
    expenses,   \* self.expenses: the list of Expense objects
    file,       \* expenses.json: whether it exists and what it holds
    pc,         \* where the process is: "start", "menu", "exited", "crashed"
    last,       \* the handler that ran last: inputs read, message printed, result shown
    mutated,    \* history: an add, edit or delete completed in this run of the process
    saved       \* history: the list handed to the most recent save_to_file

vars == <<expenses, file, pc, last, mutated, saved>>

-----------------------------------------------------------------------------
(* Bounds of the model *)

\* the longest list of expenses the store model grows to
MaxExpenses == 2

\* the longest list of expenses the summaries are computed over
MaxSummaryLen == 2

-----------------------------------------------------------------------------
(* Characters and strings *)

DigitChars == <<"0", "1", "2", "3", "4", "5", "6", "7", "8", "9">>

Digits == {DigitChars[i] : i \in 1..10}

NonZeroDigits == Digits \ {"0"}

DigitVal(c) == (CHOOSE i \in 1..10 : DigitChars[i] = c) - 1

AllDigits(s) == \A i \in 1..Len(s) : s[i] \in Digits

RECURSIVE StrToNat(_)
StrToNat(s) ==
    IF s = <<>> THEN 0
    ELSE StrToNat(SubSeq(s, 1, Len(s) - 1)) * 10 + DigitVal(s[Len(s)])

\* str(n) for n >= 0, as the f-string of line 113 formats an int
RECURSIVE IntToStr(_)
IntToStr(n) ==
    IF n < 10 THEN <<DigitChars[n + 1]>>
    ELSE IntToStr(n \div 10) \o <<DigitChars[(n % 10) + 1]>>

\* the zero-padded field of width w that strftime writes for %Y and %m
RECURSIVE ZeroPad(_, _)
ZeroPad(s, w) == IF Len(s) >= w THEN s ELSE ZeroPad(<<"0">> \o s, w)

UpperChars == <<"A", "B", "C", "D", "E", "F", "G", "H", "I", "J", "K", "L", "M",
                "N", "O", "P", "Q", "R", "S", "T", "U", "V", "W", "X", "Y", "Z">>

LowerChars == <<"a", "b", "c", "d", "e", "f", "g", "h", "i", "j", "k", "l", "m",
                "n", "o", "p", "q", "r", "s", "t", "u", "v", "w", "x", "y", "z">>

LowerChar(c) ==
    IF \E i \in 1..26 : UpperChars[i] = c
    THEN LowerChars[CHOOSE i \in 1..26 : UpperChars[i] = c]
    ELSE c

\* str.lower()
lower(s) == [i \in 1..Len(s) |-> LowerChar(s[i])]

\* the code point of a character, for the characters of dates and period keys
Ord(c) ==
    IF c = " " THEN 32
    ELSE IF c = "-" THEN 45
    ELSE IF c \in Digits THEN 48 + DigitVal(c)
    ELSE IF \E i \in 1..26 : UpperChars[i] = c
         THEN 64 + (CHOOSE i \in 1..26 : UpperChars[i] = c)
    ELSE IF \E i \in 1..26 : LowerChars[i] = c
         THEN 96 + (CHOOSE i \in 1..26 : LowerChars[i] = c)
    ELSE 127

\* a < b on Python strings: by code point, a proper prefix first
RECURSIVE StrLess(_, _)
StrLess(a, b) ==
    IF b = <<>> THEN FALSE
    ELSE IF a = <<>> THEN TRUE
    ELSE IF Ord(a[1]) # Ord(b[1]) THEN Ord(a[1]) < Ord(b[1])
    ELSE StrLess(Tail(a), Tail(b))

-----------------------------------------------------------------------------
(* Dates: datetime.strptime(s, "%Y-%m-%d"), isocalendar(), strftime *)

IsLeap(y) == (y % 4 = 0 /\ y % 100 # 0) \/ y % 400 = 0

DaysInMonth(y, m) ==
    IF m = 2 THEN (IF IsLeap(y) THEN 29 ELSE 28)
    ELSE IF m \in {4, 6, 9, 11} THEN 30 ELSE 31

\* the characters %m consumes at position p: 1[0-2] | 0[1-9] | [1-9]
MonthWidth(s, p) ==
    IF Len(s) >= p + 1
       /\ \/ s[p] = "1" /\ s[p + 1] \in {"0", "1", "2"}
          \/ s[p] = "0" /\ s[p + 1] \in NonZeroDigits
    THEN 2
    ELSE IF Len(s) >= p /\ s[p] \in NonZeroDigits THEN 1 ELSE 0

\* the characters %d consumes at position p: 3[01] | [12]\d | 0[1-9] | [1-9] | " "[1-9]
DayWidth(s, p) ==
    IF Len(s) >= p + 1
       /\ \/ s[p] = "3" /\ s[p + 1] \in {"0", "1"}
          \/ s[p] \in {"1", "2"} /\ s[p + 1] \in Digits
          \/ s[p] = "0" /\ s[p + 1] \in NonZeroDigits
          \/ s[p] = " " /\ s[p + 1] \in NonZeroDigits
    THEN 2
    ELSE IF Len(s) >= p /\ s[p] \in NonZeroDigits THEN 1 ELSE 0

FieldVal(s, p, w) ==
    IF s[p] = " " THEN StrToNat(SubSeq(s, p + 1, p + w - 1))
    ELSE StrToNat(SubSeq(s, p, p + w - 1))

\* strptime(s, "%Y-%m-%d"): ok is FALSE where it raises ValueError (the string
\* does not match the format, data remains after the match, or the fields do
\* not make a date)
strptime(s) ==
    LET bad == [ok |-> FALSE, year |-> 0, month |-> 0, day |-> 0]
    IN  IF ~(Len(s) >= 5 /\ AllDigits(SubSeq(s, 1, 4)) /\ s[5] = "-") THEN bad
        ELSE LET mw == MonthWidth(s, 6)
             IN  IF mw = 0 \/ Len(s) < 6 + mw \/ s[6 + mw] # "-" THEN bad
                 ELSE LET dp == 7 + mw
                          dw == DayWidth(s, dp)
                      IN  IF dw = 0 \/ Len(s) # dp + dw - 1 THEN bad
                          ELSE LET y == StrToNat(SubSeq(s, 1, 4))
                                   m == FieldVal(s, 6, mw)
                                   d == FieldVal(s, dp, dw)
                               IN  IF y < 1 \/ d > DaysInMonth(y, m) THEN bad
                                   ELSE [ok |-> TRUE, year |-> y, month |-> m, day |-> d]

\* ExpenseTracker.validate_date
validate_date(date_str) == strptime(date_str).ok

DaysBeforeYear(year) ==
    LET y == year - 1 IN y * 365 + (y \div 4) - (y \div 100) + (y \div 400)

RECURSIVE DaysBeforeMonth(_, _)
DaysBeforeMonth(y, m) ==
    IF m = 1 THEN 0 ELSE DaysBeforeMonth(y, m - 1) + DaysInMonth(y, m - 1)

\* date.toordinal()
Ordinal(dt) == DaysBeforeYear(dt.year) + DaysBeforeMonth(dt.year, dt.month) + dt.day

IsoWeek1Monday(year) ==
    LET firstday == DaysBeforeYear(year) + 1
        firstweekday == (firstday + 6) % 7
        week1monday == firstday - firstweekday
    IN  IF firstweekday > 3 THEN week1monday + 7 ELSE week1monday

\* date.isocalendar(): the ISO year and the ISO week number
isocalendar(dt) ==
    LET today == Ordinal(dt)
        w1 == IsoWeek1Monday(dt.year)
    IN  IF today < w1
        THEN [year |-> dt.year - 1,
              week |-> ((today - IsoWeek1Monday(dt.year - 1)) \div 7) + 1]
        ELSE IF (today - w1) \div 7 >= 52 /\ today >= IsoWeek1Monday(dt.year + 1)
        THEN [year |-> dt.year + 1, week |-> 1]
        ELSE [year |-> dt.year, week |-> ((today - w1) \div 7) + 1]

-----------------------------------------------------------------------------
(* Expense objects and the JSON document *)

\* Expense.__init__
Expense(amount, category, date) ==
    [amount |-> amount, category |-> category, date |-> date]

\* Expense.to_dict: the dict with the keys 'amount', 'category', 'date'
to_dict(exp) ==
    [amount |-> exp.amount, category |-> exp.category, date |-> exp.date]

JNumber(n) == [t |-> "number", n |-> n]

JString(s) == [t |-> "string", s |-> s]

JArray(items) == [t |-> "array", items |-> items]

JObject(members) == [t |-> "object", members |-> members]

\* text that is no JSON value
Garbage == [t |-> "garbage"]

\* json.dump of the list of dicts: floats become numbers, strs become strings
json_dump(dicts) ==
    JArray([i \in 1..Len(dicts) |->
        JObject([amount   |-> JNumber(dicts[i].amount),
                 category |-> JString(dicts[i].category),
                 date     |-> JString(dicts[i].date)])])

\* json.load of a member value: a number or a string
JsonToPy(j) == IF j.t = "number" THEN j.n ELSE j.s

\* json.load raises JSONDecodeError unless the text is exactly one JSON value
JsonDecodes(chunks) == Len(chunks) = 1 /\ chunks[1].t # "garbage"

\* Expense.from_dict(item) returns: item is a dict holding the three keys.
\* Otherwise data['amount'] raises TypeError (item is no dict) or KeyError.
FromDictReturns(item) ==
    /\ item.t = "object"
    /\ {"amount", "category", "date"} \subseteq DOMAIN item.members

\* Expense.from_dict
from_dict(item) ==
    Expense(JsonToPy(item.members["amount"]),
            JsonToPy(item.members["category"]),
            JsonToPy(item.members["date"]))

\* what `for item in data` iterates over: the items of a list, the keys of a
\* dict, the characters of a str; "raises" for a value that is not iterable
IterItems(data) ==
    IF data.t = "array" THEN data.items
    ELSE IF data.t = "object"
         THEN IF DOMAIN data.members = {} THEN <<>> ELSE <<JString(<<"k">>)>>
    ELSE IF data.t = "string"
         THEN [i \in 1..Len(data.s) |-> JString(<<data.s[i]>>)]
    ELSE <<>>

Iterable(data) == data.t \in {"array", "object", "string"}

\* save_to_file with the file opened in mode 'a': the document is appended
save_to_file_append(exps) ==
    [exists |-> TRUE,
     chunks |-> file.chunks \o <<json_dump([i \in 1..Len(exps) |-> to_dict(exps[i])])>>]

\* ExpenseTracker.save_to_file: open(filename, 'w') truncates, then one document
save_to_file(exps) ==
    [exists |-> TRUE,
     chunks |-> <<json_dump([i \in 1..Len(exps) |-> to_dict(exps[i])])>>]

\* The body of ExpenseTracker.load_from_file on file f: how it ends and the
\* list it assigns. "crash" is an exception that no except clause catches.
load_from_file(f) ==
    IF ~f.exists THEN [status |-> "missing", expenses |-> <<>>]
    ELSE IF ~JsonDecodes(f.chunks) THEN [status |-> "corrupt", expenses |-> <<>>]
    ELSE LET data == f.chunks[1]
             items == IterItems(data)
         IN  IF Iterable(data) /\ \A i \in 1..Len(items) : FromDictReturns(items[i])
             THEN [status |-> "ok",
                   expenses |-> [i \in 1..Len(items) |-> from_dict(items[i])]]
             ELSE [status |-> "crash", expenses |-> <<>>]

-----------------------------------------------------------------------------
(* Input parsing *)

\* the strings float() and int() accept, among those the model enters:
\* an optional sign and decimal digits
IsNumeral(s) ==
    LET body == IF s # <<>> /\ s[1] \in {"-", "+"} THEN Tail(s) ELSE s
    IN  body # <<>> /\ AllDigits(body)

NumeralVal(s) ==
    IF s[1] = "-" THEN 0 - StrToNat(Tail(s))
    ELSE IF s[1] = "+" THEN StrToNat(Tail(s))
    ELSE StrToNat(s)

\* datetime.now().strftime("%Y-%m-%d") on the day the model runs
Today == <<"2", "0", "2", "4", "-", "0", "3", "-", "0", "1">>

-----------------------------------------------------------------------------
(* Values the model enters *)

Empty == <<>>

AddAmountInputs == {<<"5">>, <<"x">>}

AddCategoryInputs == {<<"F", "o", "o", "d">>}

AddDateInputs == {Empty, <<"2", "0", "2", "4", "-", "1", "-", "8">>, <<"2", "0", "2", "4", "-", "0", "2", "-", "3", "0">>}

EditAmountInputs == {Empty, <<"7">>, <<"x">>}

EditCategoryInputs == {Empty, <<"R", "e", "n", "t">>}

EditDateInputs == {Empty, <<"2", "0", "2", "4", "-", "1", "-", "8">>, <<"2", "0", "2", "4", "-", "1", "3", "-", "0", "1">>}

ChoiceInputs == {IntToStr(n) : n \in 0..(MaxExpenses + 1)} \cup {<<"x">>}

FileEntry1 == JObject([amount   |-> JNumber(5),
                       category |-> JString(<<"F", "o", "o", "d">>),
                       date     |-> JString(Today)])

FileEntry2 == JObject([amount   |-> JNumber(7),
                       category |-> JString(<<"R", "e", "n", "t">>),
                       date     |-> JString(Today)])

\* the storage file as the process finds it when it starts
InitialFiles ==
    {[exists |-> FALSE, chunks |-> <<>>]}
    \cup {[exists |-> TRUE, chunks |-> c] : c \in
           { <<>>,                                        \* an empty file
             <<Garbage>>,                                 \* not valid json
             <<JArray(<<>>)>>,
             <<JArray(<<FileEntry1, FileEntry2>>)>>,
             <<JArray(<<JNumber(1), JNumber(2)>>)>>,      \* an array of numbers
             <<JObject([a |-> JNumber(1)])>>,             \* a JSON object
             <<JArray(<<JObject([amount |-> JNumber(5),
                                 category |-> JString(<<"F", "o", "o", "d">>)])>>)>>  \* no date key
           }}

NoSave == [any |-> FALSE, expenses |-> <<>>]

Ran(op, args, msg, wrote, result) ==
    [op |-> op, args |-> args, msg |-> msg, saved |-> wrote, result |-> result]

-----------------------------------------------------------------------------
(* The process and its menu handlers *)

Init ==
    /\ expenses = <<>>
    /\ file \in InitialFiles
    /\ pc = "start"
    /\ last = Ran("init", <<>>, "", FALSE, <<>>)
    /\ mutated = FALSE
    /\ saved = NoSave

\* tracker.load_from_file() at startup
LoadFromFile ==
    /\ pc = "start"
    /\ LET r == load_from_file(file)
       IN  /\ expenses' = IF r.status = "ok" THEN r.expenses ELSE expenses
           /\ pc' = IF r.status = "crash" THEN "crashed" ELSE "menu"
           /\ last' = Ran("load", <<>>,
                          CASE r.status = "ok" -> "Successfully loaded"
                            [] r.status = "missing" -> "No existing data found. Starting a new record."
                            [] r.status = "corrupt" -> "Error: Data file is corrupted. Starting with an empty list."
                            [] OTHER -> "Traceback",
                          FALSE, <<>>)
    /\ UNCHANGED <<file, mutated, saved>>

\* ExpenseTracker.add_expenses
add_expenses(amount_in, category_in, date_in) ==
    /\ pc = "menu"
    /\ IF ~IsNumeral(amount_in)
       THEN /\ last' = Ran("add", <<amount_in>>,
                           "Error: Invalid input. Please enter a numeric amount.", FALSE, <<>>)
            /\ UNCHANGED <<expenses, file, pc, mutated, saved>>
       ELSE LET date == IF date_in = Empty THEN Today ELSE date_in
            IN  IF ~validate_date(date)
                THEN /\ last' = Ran("add", <<amount_in, category_in, date_in>>,
                                    "Error: Invalid date format. Please use YYYY-MM-DD.", FALSE, <<>>)
                     /\ UNCHANGED <<expenses, file, pc, mutated, saved>>
                ELSE /\ Len(expenses) < MaxExpenses
                     /\ expenses' = Append(expenses, Expense(NumeralVal(amount_in), category_in, date))
                     /\ file' = save_to_file(expenses')
                     /\ saved' = [any |-> TRUE, expenses |-> expenses']
                     /\ mutated' = TRUE
                     /\ last' = Ran("add", <<amount_in, category_in, date_in>>, "Success", TRUE, <<>>)
                     /\ UNCHANGED pc

\* list index i (0-based, a negative i counts from the end) as a position 1..Len
Position(exps, i) == IF i < 0 THEN i + Len(exps) + 1 ELSE i + 1

\* list.pop() without the index: the last item is removed
pop_last(exps, i) == SubSeq(exps, 1, Len(exps) - 1)

\* list.pop(i)
pop(exps, i) ==
    SubSeq(exps, 1, Position(exps, i) - 1) \o SubSeq(exps, Position(exps, i) + 1, Len(exps))

\* the index test with the lower bound off by one
valid_choice_from_zero(choice, n) == 0 <= choice /\ choice <= n

\* the test `1 <= choice <= len(self.expenses)` of delete_expense and edit_expense
valid_choice(choice, n) == 1 <= choice /\ choice <= n

\* delete_expense with the call self.save_to_file() left out
delete_expense_unsaved(choice_in) ==
    /\ pc = "menu"
    /\ IF expenses = <<>>
       THEN /\ last' = Ran("delete", <<>>, "No expenses available to delete.", FALSE, <<>>)
            /\ UNCHANGED <<expenses, file, pc, mutated, saved>>
       ELSE IF ~IsNumeral(choice_in)
       THEN /\ last' = Ran("delete", <<choice_in>>,
                           "Error: Invalid input. Please enter a number.", FALSE, <<>>)
            /\ UNCHANGED <<expenses, file, pc, mutated, saved>>
       ELSE LET choice == NumeralVal(choice_in)
            IN  IF valid_choice(choice, Len(expenses))
                THEN /\ expenses' = pop(expenses, choice - 1)
                     /\ mutated' = TRUE
                     /\ last' = Ran("delete", <<choice_in>>, "Deleted", FALSE,
                                    expenses[Position(expenses, choice - 1)])
                     /\ UNCHANGED <<file, saved, pc>>
                ELSE /\ last' = Ran("delete", <<choice_in>>, "Error: Invalid selection.", FALSE, <<>>)
                     /\ UNCHANGED <<expenses, file, pc, mutated, saved>>

\* ExpenseTracker.delete_expense
delete_expense(choice_in) ==
    /\ pc = "menu"
    /\ IF expenses = <<>>
       THEN /\ last' = Ran("delete", <<>>, "No expenses available to delete.", FALSE, <<>>)
            /\ UNCHANGED <<expenses, file, pc, mutated, saved>>
       ELSE IF ~IsNumeral(choice_in)
       THEN /\ last' = Ran("delete", <<choice_in>>,
                           "Error: Invalid input. Please enter a number.", FALSE, <<>>)
            /\ UNCHANGED <<expenses, file, pc, mutated, saved>>
       ELSE LET choice == NumeralVal(choice_in)
            IN  IF valid_choice(choice, Len(expenses))
                THEN /\ expenses' = pop(expenses, choice - 1)
                     /\ file' = save_to_file(expenses')
                     /\ saved' = [any |-> TRUE, expenses |-> expenses']
                     /\ mutated' = TRUE
                     /\ last' = Ran("delete", <<choice_in>>, "Deleted", TRUE,
                                    expenses[Position(expenses, choice - 1)])
                     /\ UNCHANGED pc
                ELSE /\ last' = Ran("delete", <<choice_in>>, "Error: Invalid selection.", FALSE, <<>>)
                     /\ UNCHANGED <<expenses, file, pc, mutated, saved>>

\* the field updates with `if new_category:` left out
edit_fields_unguarded(expense, new_amount, new_category, new_date) ==
    [amount   |-> IF new_amount # Empty /\ IsNumeral(new_amount)
                  THEN NumeralVal(new_amount) ELSE expense.amount,
     category |-> new_category,
     date     |-> IF new_date # Empty /\ validate_date(new_date)
                  THEN new_date ELSE expense.date]

\* the three field updates of edit_expense applied to one Expense
edit_fields(expense, new_amount, new_category, new_date) ==
    [amount   |-> IF new_amount # Empty /\ IsNumeral(new_amount)
                  THEN NumeralVal(new_amount) ELSE expense.amount,
     category |-> IF new_category # Empty THEN new_category ELSE expense.category,
     date     |-> IF new_date # Empty /\ validate_date(new_date)
                  THEN new_date ELSE expense.date]

\* ExpenseTracker.edit_expense
edit_expense(choice_in, new_amount, new_category, new_date) ==
    /\ pc = "menu"
    /\ IF expenses = <<>>
       THEN /\ last' = Ran("edit", <<>>, "No expenses available to edit.", FALSE, <<>>)
            /\ UNCHANGED <<expenses, file, pc, mutated, saved>>
       ELSE IF ~IsNumeral(choice_in)
       THEN /\ last' = Ran("edit", <<choice_in>>,
                           "Error: Invalid input. Please enter a number.", FALSE, <<>>)
            /\ UNCHANGED <<expenses, file, pc, mutated, saved>>
       ELSE LET choice == NumeralVal(choice_in)
            IN  IF valid_choice(choice, Len(expenses))
                THEN /\ expenses' = [expenses EXCEPT ![Position(expenses, choice - 1)] =
                                        edit_fields(@, new_amount, new_category, new_date)]
                     /\ file' = save_to_file(expenses')
                     /\ saved' = [any |-> TRUE, expenses |-> expenses']
                     /\ mutated' = TRUE
                     /\ last' = Ran("edit", <<choice_in, new_amount, new_category, new_date>>,
                                    "Expense updated successfully.", TRUE, <<>>)
                     /\ UNCHANGED pc
                ELSE /\ last' = Ran("edit", <<choice_in>>, "Error: Invalid selection.", FALSE, <<>>)
                     /\ UNCHANGED <<expenses, file, pc, mutated, saved>>

\* menu choice '6': break
Exit ==
    /\ pc = "menu"
    /\ pc' = "exited"
    /\ UNCHANGED <<expenses, file, last, mutated, saved>>

\* the program is run again: a new ExpenseTracker over the file as it was left
Restart ==
    /\ pc = "exited"
    /\ pc' = "start"
    /\ expenses' = <<>>
    /\ mutated' = FALSE
    /\ last' = Ran("init", <<>>, "", FALSE, <<>>)
    /\ UNCHANGED <<file, saved>>

Add == \E a \in AddAmountInputs, c \in AddCategoryInputs, d \in AddDateInputs :
           add_expenses(a, c, d)

Delete == \E i \in ChoiceInputs : delete_expense(i)

\* the three field inputs are entered only when edit_expense asks for them
Edit == \E i \in ChoiceInputs :
           IF IsNumeral(i) /\ valid_choice(NumeralVal(i), Len(expenses))
           THEN \E a \in EditAmountInputs, c \in EditCategoryInputs, d \in EditDateInputs :
                   edit_expense(i, a, c, d)
           ELSE edit_expense(i, Empty, Empty, Empty)

Next ==
    \/ LoadFromFile
    \/ Add
    \/ Edit
    \/ Delete
    \/ Exit
    \/ Restart

Spec == Init /\ [][Next]_vars

-----------------------------------------------------------------------------
(* Summaries: view_summary and graphical_summary *)

\* the category total with the two lower() calls left out
RECURSIVE total_by_category_exact(_, _)
total_by_category_exact(exps, category) ==
    IF exps = <<>> THEN 0
    ELSE total_by_category_exact(SubSeq(exps, 1, Len(exps) - 1), category)
         + (IF exps[Len(exps)].category = category
            THEN exps[Len(exps)].amount ELSE 0)

\* sum(exp.amount for exp in exps if exp.category.lower() == category.lower())
RECURSIVE total_by_category(_, _)
total_by_category(exps, category) ==
    IF exps = <<>> THEN 0
    ELSE total_by_category(SubSeq(exps, 1, Len(exps) - 1), category)
         + (IF lower(exps[Len(exps)].category) = lower(category)
            THEN exps[Len(exps)].amount ELSE 0)

\* sum(exp.amount for exp in exps)
RECURSIVE total_overall(_)
total_overall(exps) ==
    IF exps = <<>> THEN 0
    ELSE total_overall(SubSeq(exps, 1, Len(exps) - 1)) + exps[Len(exps)].amount

\* defaultdict(float) as the list of its items in insertion order:
\* d[key] += amount
DictAdd(d, key, amount) ==
    IF \E i \in 1..Len(d) : d[i].key = key
    THEN [i \in 1..Len(d) |->
            IF d[i].key = key THEN [key |-> key, value |-> d[i].value + amount] ELSE d[i]]
    ELSE Append(d, [key |-> key, value |-> 0 + amount])

\* the key of lines 106-113 for a time_choice in 1..3
period_key(expense, time_choice) ==
    LET date_obj == strptime(expense.date)
    IN  IF time_choice = 1 THEN expense.date
        ELSE IF time_choice = 2
        THEN IntToStr(date_obj.year) \o <<"-">> \o ZeroPad(IntToStr(date_obj.month), 2)
        ELSE IntToStr(date_obj.year) \o <<"-", "W">> \o IntToStr(isocalendar(date_obj).week)

\* the loop of lines 101-117 from expense i on: the summary built, and whether
\* the loop returned on "Error: Invalid choice."
RECURSIVE period_loop(_, _, _, _)
period_loop(exps, i, time_choice, summary) ==
    IF i > Len(exps) THEN [error |-> FALSE, summary |-> summary]
    ELSE IF ~validate_date(exps[i].date)
    THEN period_loop(exps, i + 1, time_choice, summary)
    ELSE IF time_choice \notin {1, 2, 3}
    THEN [error |-> TRUE, summary |-> summary]
    ELSE period_loop(exps, i + 1, time_choice,
                     DictAdd(summary, period_key(exps[i], time_choice), exps[i].amount))

\* sorted(summary.items()): ascending by key, the keys being distinct
RECURSIVE sorted_items(_)
sorted_items(d) ==
    IF d = <<>> THEN <<>>
    ELSE LET m == CHOOSE i \in 1..Len(d) :
                      \A j \in 1..Len(d) : j = i \/ StrLess(d[i].key, d[j].key)
         IN  <<d[m]>> \o sorted_items(SubSeq(d, 1, m - 1) \o SubSeq(d, m + 1, Len(d)))

\* ExpenseTracker.view_summary
view_summary(choice_in, category_in, time_choice_in) ==
    /\ pc = "menu"
    /\ last' =
         IF expenses = <<>>
         THEN Ran("view_summary", <<>>, "No expenses recorded yet.", FALSE, <<>>)
         ELSE IF ~IsNumeral(choice_in)
         THEN Ran("view_summary", <<choice_in>>,
                  "Error: Invalid input. Please enter a number.", FALSE, <<>>)
         ELSE IF NumeralVal(choice_in) = 1
         THEN Ran("view_summary", <<choice_in, category_in>>,
                  "Total spending in category", FALSE,
                  total_by_category(expenses, category_in))
         ELSE IF NumeralVal(choice_in) = 2
         THEN Ran("view_summary", <<choice_in>>,
                  "Total overall spending", FALSE, total_overall(expenses))
         ELSE IF NumeralVal(choice_in) = 3
         THEN IF ~IsNumeral(time_choice_in)
              THEN Ran("view_summary", <<choice_in, time_choice_in>>,
                       "Error: Invalid input. Please enter a number.", FALSE, <<>>)
              ELSE LET r == period_loop(expenses, 1, NumeralVal(time_choice_in), <<>>)
                   IN  IF r.error
                       THEN Ran("view_summary", <<choice_in, time_choice_in>>,
                                "Error: Invalid choice.", FALSE, <<>>)
                       ELSE Ran("view_summary", <<choice_in, time_choice_in>>,
                                "Spending summary over selected time period:", FALSE,
                                sorted_items(r.summary))
         ELSE Ran("view_summary", <<choice_in>>,
                  "Error: Please choose a valid option (1, 2, or 3).", FALSE, <<>>)
    /\ UNCHANGED <<expenses, file, pc, mutated, saved>>

\* the loop of lines 202-204: category_totals[exp.category] += exp.amount
RECURSIVE category_totals(_, _, _)
category_totals(exps, i, totals) ==
    IF i > Len(exps) THEN totals
    ELSE category_totals(exps, i + 1, DictAdd(totals, exps[i].category, exps[i].amount))

\* ExpenseTracker.graphical_summary: result is what the bar chart is drawn from
graphical_summary ==
    /\ pc = "menu"
    /\ last' =
         IF expenses = <<>>
         THEN Ran("graphical_summary", <<>>,
                  "No data available for graphical summary.", FALSE, <<>>)
         ELSE Ran("graphical_summary", <<>>, "Expense Distribution by Category", FALSE,
                  category_totals(expenses, 1, <<>>))
    /\ UNCHANGED <<expenses, file, pc, mutated, saved>>

SummaryAmounts == {5, 7}

SummaryCategories == {<<"F", "o", "o", "d">>, <<"f", "o", "o", "d">>, <<"R", "e", "n", "t">>}

SummaryDates == {<<"2", "0", "2", "4", "-", "0", "1", "-", "0", "1">>,
                 <<"2", "0", "2", "4", "-", "0", "1", "-", "0", "8">>,
                 <<"2", "0", "2", "4", "-", "0", "3", "-", "0", "4">>,
                 <<"2", "0", "2", "4", "-", "1", "2", "-", "3", "0">>,
                 <<"2", "0", "2", "4", "-", "0", "2", "-", "3", "0">>}

\* the expenses the summaries are computed over: every date under one
\* category, and every category under one date
SummaryEntries ==
    {Expense(a, <<"F", "o", "o", "d">>, d) : a \in SummaryAmounts, d \in SummaryDates}
    \cup {Expense(a, c, <<"2", "0", "2", "4", "-", "0", "1", "-", "0", "1">>) : a \in SummaryAmounts, c \in SummaryCategories}

SummaryLists ==
    UNION {[1..n -> SummaryEntries] : n \in 0..MaxSummaryLen}

SummaryChoiceInputs == {<<"1">>, <<"2">>, <<"3">>, <<"4">>, <<"x">>}

CategoryInputs == {<<"f", "o", "o", "d">>, <<"R", "e", "n", "t">>, <<"G", "a", "s">>}

\* a store that holds any list of entries, as loaded from its file
SummaryInit ==
    /\ expenses \in SummaryLists
    /\ file = save_to_file(expenses)
    /\ pc = "menu"
    /\ last = Ran("load", <<>>, "Successfully loaded", FALSE, <<>>)
    /\ mutated = FALSE
    /\ saved = NoSave

\* the category and the time period are entered only when view_summary asks for them
ViewSummary ==
    \E c \in SummaryChoiceInputs :
        IF expenses # <<>> /\ IsNumeral(c) /\ NumeralVal(c) = 1
        THEN \E cat \in CategoryInputs : view_summary(c, cat, Empty)
        ELSE IF expenses # <<>> /\ IsNumeral(c) /\ NumeralVal(c) = 3
        THEN \E tc \in SummaryChoiceInputs : view_summary(c, Empty, tc)
        ELSE view_summary(c, Empty, Empty)

GraphicalSummary == graphical_summary

SummaryNext ==
    \/ ViewSummary
    \/ GraphicalSummary

SummarySpec == SummaryInit /\ [][SummaryNext]_vars

-----------------------------------------------------------------------------
(* Properties of the record store and its persistence, checked under Spec *)

\* the index input denotes a position of a list of n entries
ValidIndex(c, n) == IsNumeral(c) /\ NumeralVal(c) \in 1..n

\* the k-th input the handler read, empty when it returned before reading it
ArgOr(args, k) == IF Len(args) >= k THEN args[k] ELSE Empty

\* the step is a run of delete_expense, of edit_expense, on the inputs it read
DeleteStep ==
    /\ pc = "menu"
    /\ last'.op = "delete"
    /\ delete_expense(ArgOr(last'.args, 1))

EditStep ==
    /\ pc = "menu"
    /\ last'.op = "edit"
    /\ edit_expense(ArgOr(last'.args, 1), ArgOr(last'.args, 2),
                    ArgOr(last'.args, 3), ArgOr(last'.args, 4))

\* the file holds one JSON array of objects that each have the three keys
WellFormedFile(f) ==
    /\ f.exists
    /\ Len(f.chunks) = 1
    /\ f.chunks[1].t = "array"
    /\ \A i \in 1..Len(f.chunks[1].items) :
         /\ f.chunks[1].items[i].t = "object"
         /\ DOMAIN f.chunks[1].items[i].members = {"amount", "category", "date"}

\* C1: once an add, edit or delete has completed in this run of the process,
\* the storage file holds exactly the in-memory list between operations: one
\* JSON array with one object per expense, in the same order, each with that
\* expense's amount, category and date.
C1_FileMatchesMemory ==
    (mutated /\ pc \in {"menu", "exited"}) =>
        /\ WellFormedFile(file)
        /\ Len(file.chunks[1].items) = Len(expenses)
        /\ \A i \in 1..Len(expenses) :
             LET m == file.chunks[1].items[i].members
             IN  /\ m["amount"] = JNumber(expenses[i].amount)
                 /\ m["category"] = JString(expenses[i].category)
                 /\ m["date"] = JString(expenses[i].date)

\* a delete has completed and left an entry in the store and in the file
C1_Witness ==
    /\ mutated
    /\ last.op = "delete"
    /\ last.msg = "Deleted"
    /\ Len(expenses) >= 1

\* C2: a delete at a valid index i of a store of count entries leaves count - 1
\* entries: those before i keep position and content, each entry after i moves
\* one position down unchanged, and the removed entry is the one that was at i.
\* (Stated as: where `last` shows a delete at a valid index, the step has this
\* effect or is no step of delete_expense.)
C2_DeleteRemovesTarget ==
    [][(last'.op = "delete" /\ ValidIndex(ArgOr(last'.args, 1), Len(expenses))) =>
           \/ LET i == NumeralVal(last'.args[1])
              IN  /\ Len(expenses') = Len(expenses) - 1
                  /\ \A j \in 1..(i - 1) : expenses'[j] = expenses[j]
                  /\ \A j \in (i + 1)..Len(expenses) : expenses'[j - 1] = expenses[j]
                  /\ last'.result = expenses[i]
           \/ ~DeleteStep]_vars

\* entry 1 was deleted and the entry behind it has moved down
C2_Witness ==
    /\ last.op = "delete"
    /\ last.msg = "Deleted"
    /\ last.args = <<IntToStr(1)>>
    /\ Len(expenses) >= 1

\* C3: an edit at a valid index changes nothing but the targeted entry, and
\* in it each field on its own: a field whose input is empty or fails
\* validation (non-numeric amount, invalid date) keeps its value, the others
\* take their inputs. In particular a new category with empty amount and date
\* inputs changes the category only.
\* (Stated as: where `last` shows an edit at a valid index, the step has this
\* effect or is no step of edit_expense.)
C3_EditFieldsIndependent ==
    [][(last'.op = "edit" /\ ValidIndex(ArgOr(last'.args, 1), Len(expenses))) =>
           \/ LET i == NumeralVal(last'.args[1])
                  a == ArgOr(last'.args, 2)
                  cat == ArgOr(last'.args, 3)
                  d == ArgOr(last'.args, 4)
              IN  /\ Len(expenses') = Len(expenses)
                  /\ \A j \in 1..Len(expenses) : j # i => expenses'[j] = expenses[j]
                  /\ expenses'[i].amount =
                        IF a # Empty /\ IsNumeral(a) THEN NumeralVal(a) ELSE expenses[i].amount
                  /\ expenses'[i].category =
                        IF cat # Empty THEN cat ELSE expenses[i].category
                  /\ expenses'[i].date =
                        IF d # Empty /\ validate_date(d) THEN d ELSE expenses[i].date
                  /\ (a = Empty /\ d = Empty /\ cat # Empty) =>
                        expenses'[i] = [expenses[i] EXCEPT !.category = cat]
           \/ ~EditStep]_vars

\* entry 1 of two was edited with a new category and empty amount and date
C3_Witness ==
    /\ last.op = "edit"
    /\ last.msg = "Expense updated successfully."
    /\ last.args = <<IntToStr(1), Empty, <<"R", "e", "n", "t">>, Empty>>
    /\ Len(expenses) = 2

\* C4: after load on a file that exists and is not one JSON array of
\* well-formed entry objects, the process is at its menu, the corrupt-data
\* message was printed and the store is empty.
C4_CorruptLoadRecovers ==
    (last.op = "load" /\ file.exists /\ ~WellFormedFile(file)) =>
        /\ pc = "menu"
        /\ last.msg = "Error: Data file is corrupted. Starting with an empty list."
        /\ expenses = <<>>

\* C5: a load that follows the save of a non-empty list yields that list,
\* entry by entry, and every save leaves exactly one document in the file.
C5_RoundTrip ==
    /\ (last.op = "load" /\ saved.any /\ saved.expenses # <<>>) =>
           /\ pc # "crashed"
           /\ last.msg = "Successfully loaded"
           /\ expenses = saved.expenses
    /\ last.saved => Len(file.chunks) = 1

\* a list of two entries was saved by one run of the process and loaded by the next
C5_Witness ==
    /\ last.op = "load"
    /\ saved.any
    /\ Len(saved.expenses) = 2
    /\ pc = "menu"

IndexErrors ==
    {"No expenses available to delete.", "No expenses available to edit.",
     "Error: Invalid input. Please enter a number.", "Error: Invalid selection."}

\* C9: an edit or delete whose index input is not an integer in 1..count
\* (any input on an empty store) leaves the list and the file as they were,
\* saves nothing, prints an error and returns to the menu.
C9_InvalidIndexChangesNothing ==
    [][(~ValidIndex(ArgOr(last'.args, 1), Len(expenses)) /\ (DeleteStep \/ EditStep)) =>
              /\ expenses' = expenses
              /\ file' = file
              /\ saved' = saved
              /\ ~last'.saved
              /\ last'.msg \in IndexErrors
              /\ pc' = "menu"]_vars

\* an edit of a store of two entries was refused for its index
C9_Witness ==
    /\ last.op = "edit"
    /\ last.msg = "Error: Invalid selection."
    /\ Len(expenses) = 2
    /\ pc = "menu"

\* a string in the form YYYY-MM-DD (four, two and two digits) that is a date
IsCanonicalDate(s) ==
    /\ Len(s) = 10
    /\ AllDigits(SubSeq(s, 1, 4)) /\ s[5] = "-"
    /\ AllDigits(SubSeq(s, 6, 7)) /\ s[8] = "-"
    /\ AllDigits(SubSeq(s, 9, 10))
    /\ strptime(s).ok

\* C10: every expense in the store has a date that is a valid calendar date
\* in the form YYYY-MM-DD (the files the process starts from hold such dates
\* only).
C10_StoredDatesCanonical ==
    \A i \in 1..Len(expenses) : IsCanonicalDate(expenses[i].date)

\* every expense in the store has a date that validate_date accepts
StoredDatesAccepted ==
    \A i \in 1..Len(expenses) : validate_date(expenses[i].date)

-----------------------------------------------------------------------------
(* Properties of the summaries, checked under SummarySpec *)

\* the sum of the amounts of the entries at the positions in I
RECURSIVE AmountAt(_, _)
AmountAt(exps, I) ==
    IF I = {} THEN 0
    ELSE LET i == CHOOSE i \in I : TRUE
         IN  exps[i].amount + AmountAt(exps, I \ {i})

\* the sum of total_by_category over the categories in cats
RECURSIVE SumOfCategoryTotals(_, _)
SumOfCategoryTotals(exps, cats) ==
    IF cats = {} THEN 0
    ELSE LET c == CHOOSE c \in cats : TRUE
         IN  total_by_category(exps, c) + SumOfCategoryTotals(exps, cats \ {c})

ValidDated(exps) == {i \in 1..Len(exps) : validate_date(exps[i].date)}

\* the key YYYY-Www with the two-digit ISO week number of the date
IsoWeekKey(date) ==
    LET d == strptime(date)
    IN  IntToStr(d.year) \o <<"-", "W">> \o ZeroPad(IntToStr(isocalendar(d).week), 2)

WeeklyShown ==
    /\ last.op = "view_summary"
    /\ last.msg = "Spending summary over selected time period:"
    /\ last.args = <<IntToStr(3), IntToStr(3)>>

\* C6: the weekly summary has exactly the keys YYYY-Www (ww the two-digit ISO
\* week number) of the valid-dated entries, and its keys in the ascending
\* order shown are in chronological order: every entry under an earlier key
\* is dated before every entry under a later key.
C6_WeeklyKeys ==
    WeeklyShown =>
        /\ {last.result[k].key : k \in 1..Len(last.result)}
              = {IsoWeekKey(expenses[i].date) : i \in ValidDated(expenses)}
        /\ \A k1, k2 \in 1..Len(last.result) : k1 < k2 =>
              \A i, j \in ValidDated(expenses) :
                  (/\ period_key(expenses[i], 3) = last.result[k1].key
                   /\ period_key(expenses[j], 3) = last.result[k2].key) =>
                      Ordinal(strptime(expenses[i].date)) < Ordinal(strptime(expenses[j].date))

\* C7: the category totals have one bucket per case-insensitive category,
\* keyed by the first-seen spelling, holding the sum of the amounts of all
\* entries of that category whatever their letter case.
C7_CategoryTotalsIgnoreCase ==
    (last.op = "graphical_summary" /\ expenses # <<>>) =>
        /\ Len(last.result)
              = Cardinality({lower(expenses[i].category) : i \in 1..Len(expenses)})
        /\ \A k \in 1..Len(last.result) :
              LET same == {i \in 1..Len(expenses) :
                              lower(expenses[i].category) = lower(last.result[k].key)}
                  first == CHOOSE i \in same : \A j \in same : i <= j
              IN  /\ last.result[k].key = expenses[first].category
                  /\ last.result[k].value = AmountAt(expenses, same)

====
